---- MODULE Spec2Model ----
(***************************************************************************)
(* ServerHUD: the control loop of a character-LCD status display           *)
(* (src/src/main.rs).  Times are in milliseconds on the monotonic clock.   *)
(* Rust Option values are modelled as sequences: None is <<>>, Some(x) is  *)
(* <<x>>.                                                                  *)
(***************************************************************************)
EXTENDS Integers, Sequences, FiniteSets, TLC

VARIABLES
    app,        \* the App struct: its fields, the LCD device and the cached metrics
    clock,      \* the monotonic clock read by Instant::now()
    now,        \* the local `now` of the current iteration of App::run (line 71)
    pc,         \* the position of App::run inside its loop
    iter,       \* the number of loop iterations started
    burst,      \* the number of reports handled by the current App::poll
    env,        \* the operating-system status read by the latest refresh
    step,       \* the latest step taken
    last_key,   \* the time at which the latest key-pressed report was handled
    slow,       \* the number of reports that took time to arrive
    nav         \* a walk over the pages: its start, its steps and the page reached

vars == <<app, clock, now, pc, iter, burst, env, step, last_key, slow, nav>>

----------------------------------------------------------------------------
(* Program constants *)

POLL_INTERVAL == 10
REFRESH_INTERVAL == 2000
SCREEN_TIMEOUT == 15000
LOOP_SLEEP == 10
NUM_ROWS == 4

(* Bounds of the model *)

MaxIter == 3
MaxBurst == 2
MaxSlow == 1
MaxOps == 4

PaceDelays == {LOOP_SLEEP, REFRESH_INTERVAL, SCREEN_TIMEOUT}
KeyDelays == {0, POLL_INTERVAL}
RedrawOutcomes == {0, NUM_ROWS, NUM_ROWS + 1}

----------------------------------------------------------------------------
(* Option, and small helpers *)

None == <<>>
Some(x) == <<x>>
IsSome(o) == o # None
Unwrap(o) == o[1]

Min(a, b) == IF a <= b THEN a ELSE b
SaturatingSub(a, b) == IF a >= b THEN a - b ELSE 0

\* iter.skip(n).take(k) on a finite sequence
SkipTake(seq, n, k) == SubSeq(seq, n + 1, Min(Len(seq), n + k))

\* a faulty catch-up that restarts the period at the time of the check
CatchUp_from_now(deadline, period, t) ==
    IF t >= deadline THEN t + period ELSE deadline

\* `while now >= deadline { deadline += period }`: the loop runs
\* (t - deadline) / period + 1 times when t >= deadline, and not at all otherwise
CatchUp(deadline, period, t) ==
    IF t >= deadline
    THEN deadline + period * (((t - deadline) \div period) + 1)
    ELSE deadline

----------------------------------------------------------------------------
(* Page *)

Pages == {"Messages", "System", "Disk", "Network"}
Keys == {"Up", "Down", "Left", "Right", "Enter", "Exit"}

\* a faulty successor that never leaves Network
next_stuck(page) ==
    CASE page = "Messages" -> "Messages"
      [] page = "System" -> "Disk"
      [] page = "Disk" -> "Network"
      [] page = "Network" -> "Network"

next(page) ==
    CASE page = "Messages" -> "Messages"
      [] page = "System" -> "Disk"
      [] page = "Disk" -> "Network"
      [] page = "Network" -> "System"

\* a faulty predecessor that cycles through Messages
prev_into_messages(page) ==
    CASE page = "Messages" -> "Network"
      [] page = "Disk" -> "System"
      [] page = "Network" -> "Disk"
      [] page = "System" -> "Messages"

prev(page) ==
    CASE page = "Messages" -> "Messages"
      [] page = "Disk" -> "System"
      [] page = "Network" -> "Disk"
      [] page = "System" -> "Network"

----------------------------------------------------------------------------
(* The LCD device: every call is recorded in lcd.calls, which each step of  *)
(* the loop starts empty.                                                   *)

LED_OFF == <<0, 0>>
LED_GREEN == <<0, 100>>
LED_RED == <<100, 0>>
LED_YELLOW == <<100, 100>>

Call(op, args, ok) == [op |-> op, args |-> args, ok |-> ok]

\* Device::set_led(index, red, green); the caller discards the result
set_led(a, i, rg) ==
    [a EXCEPT !.lcd.leds[i + 1] = rg,
              !.lcd.calls = Append(@, Call("set_led", <<i, rg[1], rg[2]>>, TRUE))]

\* Device::set_backlight(screen, keypad)
set_backlight(a, screen, keypad) ==
    [a EXCEPT !.lcd.backlight = Some(<<screen, keypad>>),
              !.lcd.calls = Append(@, Call("set_backlight", <<screen, keypad>>, TRUE))]

\* a device call that fails with an I/O error: it is issued and has no effect
failed_call(a, op, args) ==
    [a EXCEPT !.lcd.calls = Append(@, Call(op, args, FALSE))]

----------------------------------------------------------------------------
(* App: navigation and sleep/wake *)

queue_redraw(a) == [a EXCEPT !.should_redraw = TRUE]

\* a faulty set_page that does nothing when the page stays the same
set_page_skips_same(a, page) ==
    IF page = a.current_page THEN a
    ELSE queue_redraw([a EXCEPT !.current_page = page, !.scroll = 0, !.max_scroll = None])

\* a faulty set_page that keeps the scroll bound of the page it leaves
set_page_keeps_bound(a, page) ==
    queue_redraw([a EXCEPT !.current_page = page, !.scroll = 0])

set_page(a, page) ==
    queue_redraw([a EXCEPT !.current_page = page, !.scroll = 0, !.max_scroll = None])

is_awake(a) == IsSome(a.screen_timeout)

HasMessages(a) == a.md_warnings # <<>> \/ a.md_errors # <<>>

\* a faulty sleep that turns the backlight off and keeps the deadline
sleep_keeps_deadline(a, io) ==
    IF io THEN [ok |-> TRUE, app |-> set_backlight(a, 0, 0)]
    ELSE [ok |-> FALSE, app |-> failed_call(a, "set_backlight", <<0, 0>>)]

\* sleep(): io says whether the set_backlight call succeeds
sleep(a, io) ==
    LET a1 == [a EXCEPT !.screen_timeout = None]
    IN  IF io THEN [ok |-> TRUE, app |-> set_backlight(a1, 0, 0)]
        ELSE [ok |-> FALSE, app |-> failed_call(a1, "set_backlight", <<0, 0>>)]

\* a faulty wake that never switches to the Messages page
wake_same_page(a, t) ==
    LET was_asleep == a.screen_timeout = None
        a1 == [a EXCEPT !.screen_timeout = Some(t + SCREEN_TIMEOUT)]
    IN  [was_asleep |-> was_asleep, app |-> IF was_asleep THEN queue_redraw(a1) ELSE a1]

\* a faulty wake that sets the deadline only when the screen was asleep
wake_no_extend(a, t) ==
    LET was_asleep == a.screen_timeout = None
        a1 == [a EXCEPT !.screen_timeout = Some(t + SCREEN_TIMEOUT)]
    IN  [was_asleep |-> was_asleep,
         app |-> IF was_asleep
                 THEN queue_redraw(IF HasMessages(a1) THEN set_page(a1, "Messages") ELSE a1)
                 ELSE a]

\* a faulty wake that turns the backlight on itself
wake_lights_up(a, t) ==
    LET was_asleep == a.screen_timeout = None
        a1 == [a EXCEPT !.screen_timeout = Some(t + SCREEN_TIMEOUT)]
        a2 == IF was_asleep
              THEN set_backlight(
                       queue_redraw(IF HasMessages(a1) THEN set_page(a1, "Messages") ELSE a1),
                       a1.config.lcd.screen_backlight, a1.config.lcd.keypad_backlight)
              ELSE a1
    IN  [was_asleep |-> was_asleep, app |-> a2]

\* a faulty wake that queues a redraw on every call
wake_always_queues(a, t) ==
    LET was_asleep == a.screen_timeout = None
        a1 == [a EXCEPT !.screen_timeout = Some(t + SCREEN_TIMEOUT)]
        a2 == IF was_asleep /\ HasMessages(a1) THEN set_page(a1, "Messages") ELSE a1
    IN  [was_asleep |-> was_asleep, app |-> queue_redraw(a2)]

\* wake(): t is the value of Instant::now() at line 159
wake(a, t) ==
    LET was_asleep == a.screen_timeout = None
        a1 == [a EXCEPT !.screen_timeout = Some(t + SCREEN_TIMEOUT)]
        a2 == IF was_asleep
              THEN queue_redraw(IF HasMessages(a1) THEN set_page(a1, "Messages") ELSE a1)
              ELSE a1
    IN  [was_asleep |-> was_asleep, app |-> a2]

\* the `match key` of poll(), lines 109-135
dispatch(a, key) ==
    CASE key = "Left" -> set_page(a, prev(a.current_page))
      [] key = "Right" -> set_page(a, next(a.current_page))
      [] key = "Up" ->
            IF a.scroll > 0
            THEN queue_redraw([a EXCEPT !.scroll = @ - 1])
            ELSE a
      [] key = "Down" ->
            IF IsSome(a.max_scroll) /\ a.scroll < Unwrap(a.max_scroll)
            THEN queue_redraw([a EXCEPT !.scroll = @ + 1])
            ELSE a
      [] key \in {"Enter", "Exit"} /\ a.current_page = "Messages" ->
            set_page(a, "System")
      [] OTHER -> a

\* a faulty handler that dispatches the key that woke the screen as well
key_pressed_always_dispatches(a, key, t) == dispatch(wake(a, t).app, key)

\* the handling of one Report::KeyActivity { key, pressed: true }, lines 107-137
key_pressed(a, key, t) ==
    LET w == wake(a, t)
    IN  IF ~w.was_asleep THEN dispatch(w.app, key) ELSE w.app

----------------------------------------------------------------------------
(* Text: a Rust string is the sequence of its characters *)

LowerCase == <<"a", "b", "c", "d", "e", "f", "g", "h", "i", "j", "k", "l", "m",
               "n", "o", "p", "q", "r", "s", "t", "u", "v", "w", "x", "y", "z">>
UpperCase == <<"A", "B", "C", "D", "E", "F", "G", "H", "I", "J", "K", "L", "M",
               "N", "O", "P", "Q", "R", "S", "T", "U", "V", "W", "X", "Y", "Z">>
Digits == <<"0", "1", "2", "3", "4", "5", "6", "7", "8", "9">>

IsWhitespace(c) == c \in {" ", "\n", "\t", "\r"}

RECURSIVE trim_start(_)
trim_start(s) ==
    IF s # <<>> /\ IsWhitespace(Head(s)) THEN trim_start(Tail(s)) ELSE s

RECURSIVE trim_end(_)
trim_end(s) ==
    IF s # <<>> /\ IsWhitespace(s[Len(s)])
    THEN trim_end(SubSeq(s, 1, Len(s) - 1))
    ELSE s

trim(s) == trim_end(trim_start(s))

to_ascii_uppercase(s) ==
    [i \in 1..Len(s) |->
        IF \E k \in 1..26 : LowerCase[k] = s[i]
        THEN UpperCase[CHOOSE k \in 1..26 : LowerCase[k] = s[i]]
        ELSE s[i]]

IsDigit(c) == \E k \in 1..10 : Digits[k] = c
DigitValue(c) == (CHOOSE k \in 1..10 : Digits[k] = c) - 1

RECURSIVE DecimalValue(_)
DecimalValue(s) ==
    IF s = <<>> THEN 0
    ELSE DecimalValue(SubSeq(s, 1, Len(s) - 1)) * 10 + DigitValue(s[Len(s)])

\* str::parse::<usize>(): an optional '+', then one or more decimal digits
parse_usize(s) ==
    LET digits == IF s # <<>> /\ Head(s) = "+" THEN Tail(s) ELSE s
    IN  IF digits # <<>> /\ \A i \in 1..Len(digits) : IsDigit(digits[i])
        THEN [ok |-> TRUE, value |-> DecimalValue(digits)]
        ELSE [ok |-> FALSE, value |-> 0]

\* the Display of an unsigned integer, as in format!("{i}")
RECURSIVE format_usize(_)
format_usize(n) ==
    IF n < 10 THEN <<Digits[n + 1]>>
    ELSE format_usize(n \div 10) \o <<Digits[(n % 10) + 1]>>

----------------------------------------------------------------------------
(* The md RAID status files under /sys/block/<dev>/md *)

FileOk(data) == [ok |-> TRUE, data |-> data]
FileErr == [ok |-> FALSE, data |-> <<>>]

SlotAbsent == [exists |-> FALSE, state |-> FileErr]
SlotWith(file) == [exists |-> TRUE, state |-> file]

\* a device without a directory under /sys/block: every read fails
DevMissing == [degraded |-> FileErr, raid_disks |-> FileErr, rd |-> <<>>]

DevOf(fs, dev) == IF dev \in DOMAIN fs THEN fs[dev] ELSE DevMissing
SlotOf(d, i) == IF i + 1 \in DOMAIN d.rd THEN d.rd[i + 1] ELSE SlotAbsent

T_md == <<"m", "d", ":", " ">>
T_DEGRADED == <<" ", "D", "E", "G", "R", "A", "D", "E", "D">>
T_rd == <<":", " ", "r", "d">>
T_NOTFOUND == <<" ", "N", "O", "T", "F", "O", "U", "N", "D">>
T_query_error == <<":", " ", "q", "u", "e", "r", "y", " ", "e", "r", "r", "o", "r">>
T_in_sync == <<"i", "n", "_", "s", "y", "n", "c">>

push_warning(a, msg) == [a EXCEPT !.md_warnings = Append(@, msg)]
push_error(a, msg) == [a EXCEPT !.md_errors = Append(@, msg)]

\* the `for i in 0..num_disks` loop of check_md_dev, lines 257-270
RECURSIVE check_md_disks(_, _, _, _, _)
check_md_disks(a, dev, d, i, num_disks) ==
    IF i >= num_disks THEN [ok |-> TRUE, app |-> a]
    ELSE LET slot == SlotOf(d, i)
         IN  IF ~slot.exists
             THEN check_md_disks(
                      push_error(a, dev \o T_rd \o format_usize(i) \o T_NOTFOUND),
                      dev, d, i + 1, num_disks)
             ELSE IF ~slot.state.ok THEN [ok |-> FALSE, app |-> a]
             ELSE IF trim(slot.state.data) # T_in_sync
             THEN check_md_disks(
                      push_error(a, dev \o T_rd \o format_usize(i) \o <<" ">>
                                    \o to_ascii_uppercase(trim(slot.state.data))),
                      dev, d, i + 1, num_disks)
             ELSE check_md_disks(a, dev, d, i + 1, num_disks)

\* a faulty check that takes an unreadable raid_disks for a device without members
check_md_dev_ignores_failure(a, dev, fs) ==
    LET d == DevOf(fs, dev)
    IN  IF ~d.degraded.ok THEN [ok |-> FALSE, app |-> a]
        ELSE LET a1 == IF trim(d.degraded.data) # <<"0">>
                       THEN push_warning(a, T_md \o dev \o T_DEGRADED)
                       ELSE a
                 num_disks == parse_usize(trim(d.raid_disks.data))
             IN  IF ~d.raid_disks.ok \/ ~num_disks.ok THEN [ok |-> TRUE, app |-> a1]
                 ELSE check_md_disks(a1, dev, d, 0, num_disks.value)

check_md_dev(a, dev, fs) ==
    LET d == DevOf(fs, dev)
    IN  IF ~d.degraded.ok THEN [ok |-> FALSE, app |-> a]
        ELSE LET a1 == IF trim(d.degraded.data) # <<"0">>
                       THEN push_warning(a, T_md \o dev \o T_DEGRADED)
                       ELSE a
                 num_disks == parse_usize(trim(d.raid_disks.data))
             IN  IF ~d.raid_disks.ok \/ ~num_disks.ok THEN [ok |-> FALSE, app |-> a1]
                 ELSE check_md_disks(a1, dev, d, 0, num_disks.value)

\* the `for dev in ...md_raid` loop of check_md_raid, lines 238-243
RECURSIVE check_md_devs(_, _, _)
check_md_devs(a, devs, fs) ==
    IF devs = <<>> THEN a
    ELSE LET r == check_md_dev(a, Head(devs), fs)
         IN  check_md_devs(
                 IF r.ok THEN r.app
                 ELSE push_warning(r.app, Head(devs) \o T_query_error),
                 Tail(devs), fs)

\* a faulty check that appends to the lists of the previous report
check_md_raid_appends(a, fs) == check_md_devs(a, a.config.disk.md_raid, fs)

check_md_raid(a, fs) ==
    check_md_devs([a EXCEPT !.md_warnings = <<>>, !.md_errors = <<>>],
                  a.config.disk.md_raid, fs)

----------------------------------------------------------------------------
(* refresh() *)

\* the `for (i, (r, g)) in ... .enumerate()` loop of refresh, lines 218-226
RECURSIVE set_leds(_, _, _)
set_leds(a, colours, i) ==
    IF i >= Len(colours) THEN a
    ELSE set_leds(set_led(a, i, colours[i + 1]), colours, i + 1)

\* errors.chain(warnings).chain(repeat((0, 0))).skip(scroll).take(4): of the
\* endless tail only the first scroll + 4 entries can be taken
led_colours(a, scroll) ==
    SkipTake([i \in 1..Len(a.md_errors) |-> LED_RED]
                 \o [i \in 1..Len(a.md_warnings) |-> LED_YELLOW]
                 \o [i \in 1..(scroll + 4) |-> LED_OFF],
             scroll, 4)

\* a faulty offset that ignores the scroll position
led_scroll_zero(a) == 0

led_scroll(a) ==
    IF is_awake(a) /\ a.current_page = "Messages" THEN a.scroll ELSE 0

\* System::refresh_cpu, refresh_memory, refresh_disks_list, refresh_networks_list
refresh_system(a, e) ==
    [a EXCEPT !.system = [host_name |-> e.host_name,
                          load_average |-> e.load_average,
                          total_memory |-> e.total_memory,
                          available_memory |-> e.available_memory,
                          disks |-> e.disks,
                          networks |-> e.networks]]

all_leds_off(a) ==
    set_led(set_led(set_led(set_led(a, 0, LED_OFF), 1, LED_OFF), 2, LED_OFF), 3, LED_OFF)

\* a faulty refresh that queues a redraw whether the screen is awake or not
refresh_always_queues(a, e) ==
    LET a1 == all_leds_off(a)
        a2 == refresh_system(a1, e)
        a3 == check_md_raid(a2, e.sysfs)
        a4 == IF a3.md_warnings = <<>> /\ a3.md_errors = <<>>
              THEN set_led(set_led(set_led(set_led(a3, 0, LED_GREEN),
                                           1, LED_OFF), 2, LED_OFF), 3, LED_OFF)
              ELSE set_leds(a3, led_colours(a3, led_scroll(a3)), 0)
    IN  queue_redraw(a4)

\* refresh(): e is the operating-system status at the time of the call
refresh(a, e) ==
    LET a1 == all_leds_off(a)
        a2 == refresh_system(a1, e)
        a3 == check_md_raid(a2, e.sysfs)
        a4 == IF a3.md_warnings = <<>> /\ a3.md_errors = <<>>
              THEN set_led(set_led(set_led(set_led(a3, 0, LED_GREEN),
                                           1, LED_OFF), 2, LED_OFF), 3, LED_OFF)
              ELSE set_leds(a3, led_colours(a3, led_scroll(a3)), 0)
    IN  IF is_awake(a4) THEN queue_redraw(a4) ELSE a4

----------------------------------------------------------------------------
(* The display buffer *)

NUM_COLUMNS == 20

BlankRow == [c \in 1..NUM_COLUMNS |-> " "]

clear(a) == [a EXCEPT !.buffer = [r \in 1..NUM_ROWS |-> BlankRow]]

\* a faulty set_text that copies the whole text
set_text_unclamped(a, row, col, text) ==
    [a EXCEPT !.buffer[row + 1] =
        [c \in 1..(IF col + Len(text) > NUM_COLUMNS THEN col + Len(text) ELSE NUM_COLUMNS) |->
            IF c > col /\ c <= col + Len(text) THEN text[c - col] ELSE @[c]]]

\* set_text(row, col, text); rows and columns count from 0 as in the source
set_text(a, row, col, text) ==
    LET clamped_len == Min(Len(text), NUM_COLUMNS - col)
    IN  [a EXCEPT !.buffer[row + 1] =
            [c \in 1..NUM_COLUMNS |->
                IF c > col /\ c <= col + clamped_len THEN text[c - col] ELSE @[c]]]

\* `for (i, line) in lines.into_iter().enumerate() { set_text(i + first, 0, line) }`
RECURSIVE set_lines(_, _, _, _)
set_lines(a, lines, i, first) ==
    IF i >= Len(lines) THEN a
    ELSE set_lines(set_text(a, i + first, 0, lines[i + 1]), lines, i + 1, first)

\* Device::set_text of one row
lcd_set_text(a, row, col, text) ==
    [a EXCEPT !.lcd.calls = Append(@, Call("set_text", <<row, col, text>>, TRUE))]

\* flush(): io is the number of device calls that succeed
RECURSIVE flush_rows(_, _, _)
flush_rows(a, row, io) ==
    IF row >= NUM_ROWS THEN [ok |-> TRUE, app |-> a]
    ELSE IF row >= io
    THEN [ok |-> FALSE, app |-> failed_call(a, "set_text", <<row, 0, a.buffer[row + 1]>>)]
    ELSE flush_rows(lcd_set_text(a, row, 0, a.buffer[row + 1]), row + 1, io)

flush(a, io) == flush_rows(a, 0, io)

----------------------------------------------------------------------------
(* Formatting of the page lines *)

\* the byte order of the characters that occur in names
Ascii == <<" ", "+", "-", ".", "/">> \o Digits \o <<":">> \o UpperCase
             \o <<"_">> \o LowerCase
Code(c) == CHOOSE k \in 1..Len(Ascii) : Ascii[k] = c

\* the Ord of String: lexicographic by byte
RECURSIVE StrLess(_, _)
StrLess(s, t) ==
    IF t = <<>> THEN FALSE
    ELSE IF s = <<>> THEN TRUE
    ELSE IF Head(s) # Head(t) THEN Code(Head(s)) < Code(Head(t))
    ELSE StrLess(Tail(s), Tail(t))

\* the keys of a BTreeMap in iteration order
RECURSIVE SortedKeys(_)
SortedKeys(S) ==
    IF S = {} THEN <<>>
    ELSE LET m == CHOOSE x \in S : \A y \in S : x = y \/ StrLess(x, y)
         IN  <<m>> \o SortedKeys(S \ {m})

\* keys.iter().flat_map(|key| map.get(key)): the listed keys that are present
RECURSIVE PresentKeys(_, _)
PresentKeys(keys, S) ==
    IF keys = <<>> THEN <<>>
    ELSE (IF Head(keys) \in S THEN <<Head(keys)>> ELSE <<>>) \o PresentKeys(Tail(keys), S)

\* the items shown on the Disk and Network pages, lines 322-331 and 367-377
display_keys(allow, S) == IF allow = <<>> THEN SortedKeys(S) ELSE PresentKeys(allow, S)

\* format!("{:.2}") and format!("{:.1}") of a value given in hundredths, tenths
format_fixed2(h) ==
    format_usize(h \div 100) \o <<".", Digits[((h \div 10) % 10) + 1], Digits[(h % 10) + 1]>>
format_fixed1(t) == format_usize(t \div 10) \o <<".", Digits[(t % 10) + 1]>>

\* a faulty conversion that takes a megabyte for 1024 kB
kb_to_mib_binary(x) == x \div 1024

kb_to_mib(x) == ((x * 1024) \div 1000) \div 1024

T_CPU == <<"C", "P", "U", ":", " ">>
T_Mem == <<"M", "e", "m", ":", " ">>

load_avg_str(sys) ==
    T_CPU \o format_fixed2(sys.load_average.one) \o <<" ">>
          \o format_fixed2(sys.load_average.five) \o <<" ">>
          \o format_fixed2(sys.load_average.fifteen)

memory_str(sys) ==
    LET total == kb_to_mib(sys.total_memory)
        unavailable == total - kb_to_mib(sys.available_memory)
    IN  T_Mem \o format_usize(unavailable) \o <<"/">> \o format_usize(total) \o <<" ", "M">>

\* disk sizes are kept in MiB, so that `bytes >> 30` is `MiB >> 10`
disk_str(mount, disk) ==
    LET total == disk.total_space \div 1024
        unavailable == SaturatingSub(total, disk.available_space \div 1024)
    IN  mount \o <<" ">> \o format_usize(unavailable) \o <<"/">> \o format_usize(total)
              \o <<" ", "G">>

\* bytes / 2 s * 8e-6, rounded to one decimal: the rate in tenths of a megabit
rate_tenths(bytes) == (bytes * 4 + 50000) \div 100000

network_str(name, net) ==
    name \o <<" ">> \o format_fixed1(rate_tenths(net.transmitted)) \o <<"/">>
         \o format_fixed1(rate_tenths(net.received)) \o <<" ", "M">>

----------------------------------------------------------------------------
(* redraw() *)

\* a faulty clamp that sets the bound and leaves scroll alone
clamp_scroll_unclamped(a, count) ==
    [a EXCEPT !.max_scroll = Some(SaturatingSub(count, NUM_ROWS - 1))]

\* max_scroll and the clamp of scroll for a page of `count` items
clamp_scroll(a, count) ==
    LET max_scroll == SaturatingSub(count, NUM_ROWS - 1)
    IN  [a EXCEPT !.max_scroll = Some(max_scroll), !.scroll = Min(@, max_scroll)]

redraw_messages(a) ==
    LET a1 == clamp_scroll(a, Len(a.md_errors) + Len(a.md_warnings))
        lines == SkipTake(a1.md_errors \o a1.md_warnings, a1.scroll, NUM_ROWS - 1)
    IN  set_lines(a1, lines, 0, 0)

redraw_system(a) ==
    set_text(set_text(a, 1, 0, load_avg_str(a.system)), 2, 0, memory_str(a.system))

redraw_disk(a) ==
    LET display_disks == display_keys(a.config.disk.paths, DOMAIN a.system.disks)
        a1 == clamp_scroll(a, Len(display_disks))
        shown == SkipTake(display_disks, a1.scroll, NUM_ROWS - 1)
        lines == [i \in 1..Len(shown) |-> disk_str(shown[i], a.system.disks[shown[i]])]
    IN  set_lines(a1, lines, 0, 1)

redraw_network(a) ==
    LET display_networks == display_keys(a.config.network.interfaces,
                                         DOMAIN a.system.networks)
        a1 == clamp_scroll(a, Len(display_networks))
        shown == SkipTake(display_networks, a1.scroll, NUM_ROWS - 1)
        lines == [i \in 1..Len(shown) |->
                    network_str(shown[i], a.system.networks[shown[i]])]
    IN  set_lines(a1, lines, 0, 1)

\* the composition of the buffer, lines 276-398
compose(a) ==
    LET a1 == clear(a)
        a2 == IF a1.current_page # "Messages" /\ IsSome(a1.system.host_name)
              THEN set_text(a1, 0, 0, Unwrap(a1.system.host_name))
              ELSE a1
    IN  CASE a2.current_page = "Messages" -> redraw_messages(a2)
          [] a2.current_page = "System" -> redraw_system(a2)
          [] a2.current_page = "Disk" -> redraw_disk(a2)
          [] a2.current_page = "Network" -> redraw_network(a2)

\* redraw(): io is the number of device calls that succeed (NUM_ROWS + 1: all)
redraw(a, io) ==
    LET f == flush(compose(a), io)
    IN  IF ~f.ok THEN f
        ELSE IF io <= NUM_ROWS
        THEN [ok |-> FALSE,
              app |-> failed_call(f.app, "set_backlight",
                                  <<f.app.config.lcd.screen_backlight,
                                    f.app.config.lcd.keypad_backlight>>)]
        ELSE [ok |-> TRUE,
              app |-> set_backlight(f.app, f.app.config.lcd.screen_backlight,
                                    f.app.config.lcd.keypad_backlight)]

----------------------------------------------------------------------------
(* The configuration and the operating-system statuses the model draws from *)

S_md0 == <<"m", "d", "0">>
S_md1 == <<"m", "d", "1">>
S_host == <<"h", "u", "d">>
S_root == <<"/">>
S_boot == <<"/", "b", "o", "o", "t">>
S_home == <<"/", "h", "o", "m", "e">>
S_srv == <<"/", "s", "r", "v">>
S_var == <<"/", "v", "a", "r">>
S_eth0 == <<"e", "t", "h", "0">>
S_eth1 == <<"e", "t", "h", "1">>
S_lo == <<"l", "o">>
S_wlan0 == <<"w", "l", "a", "n", "0">>

F_0 == FileOk(<<"0", "\n">>)
F_1 == FileOk(<<"1", "\n">>)
F_2 == FileOk(<<"2", "\n">>)
F_in_sync == FileOk(<<"i", "n", "_", "s", "y", "n", "c", "\n">>)
F_faulty == FileOk(<<"f", "a", "u", "l", "t", "y", "\n">>)

DevHealthy == [degraded |-> F_0, raid_disks |-> F_2,
               rd |-> <<SlotWith(F_in_sync), SlotWith(F_in_sync)>>]
DevExample == [degraded |-> F_1, raid_disks |-> F_2,
               rd |-> <<SlotWith(F_in_sync), SlotAbsent>>]
DevFaulty == [degraded |-> F_1, raid_disks |-> F_2,
              rd |-> <<SlotWith(F_faulty), SlotAbsent>>]

Config ==
    [lcd |-> [screen_backlight |-> 100, keypad_backlight |-> 50],
     disk |-> [paths |-> <<>>, md_raid |-> <<S_md0, S_md1>>],
     network |-> [interfaces |-> <<S_wlan0, S_eth1, S_eth0, S_lo, S_eth1>>]]

DiskOf(total, available) == [total_space |-> total, available_space |-> available]
NetOf(tx, rx) == [transmitted |-> tx, received |-> rx]

EnvHealthy ==
    [sysfs |-> (S_md0 :> DevHealthy) @@ (S_md1 :> DevHealthy),
     host_name |-> Some(S_host),
     load_average |-> [one |-> 5, five |-> 12, fifteen |-> 100],
     total_memory |-> 1048576, available_memory |-> 524288,
     disks |-> (S_root :> DiskOf(102400, 51200)),
     networks |-> (S_lo :> NetOf(0, 0)) @@ (S_eth0 :> NetOf(250000, 1250000))]

EnvExample ==
    [sysfs |-> (S_md0 :> DevExample) @@ (S_md1 :> DevHealthy),
     host_name |-> Some(S_host),
     load_average |-> [one |-> 150, five |-> 99, fifteen |-> 7],
     total_memory |-> 2000000, available_memory |-> 1999,
     disks |-> (S_root :> DiskOf(102400, 51200)) @@ (S_boot :> DiskOf(1000, 2000))
                @@ (S_home :> DiskOf(2048000, 1023)) @@ (S_srv :> DiskOf(4096, 0))
                @@ (S_var :> DiskOf(20480, 10240)),
     networks |-> (S_lo :> NetOf(0, 0)) @@ (S_eth0 :> NetOf(250000, 1250000))]

EnvBroken ==
    [sysfs |-> (S_md0 :> DevFaulty),
     host_name |-> None,
     load_average |-> [one |-> 0, five |-> 0, fifteen |-> 0],
     total_memory |-> 1000, available_memory |-> 1000,
     disks |-> (S_root :> DiskOf(102400, 51200)),
     networks |-> (S_lo :> NetOf(0, 0)) @@ (S_eth0 :> NetOf(250000, 1250000))
                   @@ (S_eth1 :> NetOf(12500, 0)) @@ (S_wlan0 :> NetOf(1, 2))]

Envs == {EnvHealthy, EnvExample, EnvBroken}

----------------------------------------------------------------------------
(* The control loop *)

\* App::new(config) at time t0, lines 51-66
new(config, t0) ==
    [config |-> config,
     system |-> [host_name |-> Some(S_host),
                 load_average |-> [one |-> 0, five |-> 0, fifteen |-> 0],
                 total_memory |-> 0, available_memory |-> 0,
                 disks |-> <<>>, networks |-> <<>>],
     next_poll |-> t0,
     next_refresh |-> t0,
     screen_timeout |-> Some(t0),
     lcd |-> [backlight |-> None, leds |-> <<LED_OFF, LED_OFF, LED_OFF, LED_OFF>>,
              calls |-> <<>>],
     should_redraw |-> FALSE,
     current_page |-> "System",
     scroll |-> 0,
     max_scroll |-> None,
     buffer |-> [r \in 1..NUM_ROWS |-> BlankRow],
     md_warnings |-> <<>>,
     md_errors |-> <<>>]

Init ==
    /\ app = new(Config, 0)
    /\ clock = 0
    /\ now = 0
    /\ pc = "top"
    /\ iter = 0
    /\ burst = 0
    /\ env = EnvHealthy
    /\ step = "new"
    /\ last_key = None
    /\ slow = 0
    /\ nav = [start |-> "System", cur |-> "System", ops |-> <<>>]

\* the device calls recorded are those of the current step
Fresh(a) == [a EXCEPT !.lcd.calls = <<>>]

\* line 71-72: sample the clock and decide whether to poll
Top ==
    /\ pc = "top"
    /\ iter < MaxIter
    /\ iter' = iter + 1
    /\ now' = clock
    /\ pc' = IF clock >= app.next_poll THEN "poll" ELSE "timeout"
    /\ burst' = 0
    /\ app' = Fresh(app)
    /\ step' = "Top"
    /\ UNCHANGED <<clock, env, last_key, slow, nav>>

\* poll_report() yields a key-pressed report; d ms pass before wake() reads the clock
KeyPressed(key, d) ==
    /\ pc = "poll"
    /\ burst < MaxBurst
    /\ d > 0 => slow < MaxSlow
    /\ slow' = IF d > 0 THEN slow + 1 ELSE slow
    /\ burst' = burst + 1
    /\ clock' = clock + d
    /\ app' = key_pressed(Fresh(app), key, clock')
    /\ last_key' = Some(clock')
    /\ step' = IF is_awake(app) THEN "KeyPressedAwake" ELSE "KeyPressedAsleep"
    /\ UNCHANGED <<now, pc, iter, env, nav>>

\* poll_report() yields a key-released report or a report of another kind
ReportIgnored ==
    /\ pc = "poll"
    /\ burst < MaxBurst
    /\ burst' = burst + 1
    /\ app' = Fresh(app)
    /\ step' = "ReportIgnored"
    /\ UNCHANGED <<clock, now, pc, iter, env, last_key, slow, nav>>

\* poll_report() yields None: poll() returns and next_poll catches up, lines 74-76;
\* the count of the reports of this poll starts over
PollDone ==
    /\ pc = "poll"
    /\ app' = [Fresh(app) EXCEPT !.next_poll = CatchUp(@, POLL_INTERVAL, now)]
    /\ pc' = "timeout"
    /\ step' = "PollDone"
    /\ burst' = 0
    /\ UNCHANGED <<clock, now, iter, env, last_key, slow, nav>>

\* poll_report() fails: run() returns the error
PollError ==
    /\ pc = "poll"
    /\ app' = failed_call(Fresh(app), "poll_report", <<>>)
    /\ pc' = "exit"
    /\ step' = "PollError"
    /\ UNCHANGED <<clock, now, iter, burst, env, last_key, slow, nav>>

\* lines 79-83
TimeoutCheck(io) ==
    /\ pc = "timeout"
    /\ LET due == IsSome(app.screen_timeout) /\ now >= Unwrap(app.screen_timeout)
           r == IF due THEN sleep(Fresh(app), io) ELSE [ok |-> TRUE, app |-> Fresh(app)]
       IN  /\ app' = r.app
           /\ pc' = IF r.ok THEN "refresh" ELSE "exit"
           /\ step' = IF due THEN "Sleep" ELSE "NoSleep"
    /\ UNCHANGED <<clock, now, iter, burst, env, last_key, slow, nav>>

\* lines 87-93 when the refresh is due; e is the status of the operating system
Refresh(e) ==
    /\ pc = "refresh"
    /\ clock >= app.next_refresh
    /\ app' = [refresh(Fresh(app), e) EXCEPT
                  !.next_refresh = CatchUp(@, REFRESH_INTERVAL, clock)]
    /\ env' = e
    /\ pc' = "redraw"
    /\ step' = "Refresh"
    /\ UNCHANGED <<clock, now, iter, burst, last_key, slow, nav>>

RefreshSkip ==
    /\ pc = "refresh"
    /\ clock < app.next_refresh
    /\ app' = Fresh(app)
    /\ pc' = "redraw"
    /\ step' = "RefreshSkip"
    /\ UNCHANGED <<clock, now, iter, burst, env, last_key, slow, nav>>

\* a faulty step that redraws and leaves the redraw queued
Redraw_leaves_queued(io) ==
    /\ pc = "redraw"
    /\ app.should_redraw
    /\ LET r == redraw(Fresh(app), io)
       IN  /\ app' = r.app
           /\ pc' = IF r.ok THEN "pace" ELSE "exit"
    /\ step' = "Redraw"
    /\ UNCHANGED <<clock, now, iter, burst, env, last_key, slow, nav>>

\* lines 95-98 when a redraw is queued
Redraw(io) ==
    /\ pc = "redraw"
    /\ app.should_redraw
    /\ LET r == redraw(Fresh(app), io)
       IN  /\ app' = IF r.ok THEN [r.app EXCEPT !.should_redraw = FALSE] ELSE r.app
           /\ pc' = IF r.ok THEN "pace" ELSE "exit"
    /\ step' = "Redraw"
    /\ UNCHANGED <<clock, now, iter, burst, env, last_key, slow, nav>>

RedrawSkip ==
    /\ pc = "redraw"
    /\ ~app.should_redraw
    /\ app' = Fresh(app)
    /\ pc' = "pace"
    /\ step' = "RedrawSkip"
    /\ UNCHANGED <<clock, now, iter, burst, env, last_key, slow, nav>>

\* line 100: the thread sleeps for at least LOOP_SLEEP
Pace(d) ==
    /\ pc = "pace"
    /\ clock' = clock + d
    /\ app' = Fresh(app)
    /\ pc' = "top"
    /\ step' = "Pace"
    /\ UNCHANGED <<now, iter, burst, env, last_key, slow, nav>>

Next ==
    \/ Top
    \/ \E key \in Keys, d \in KeyDelays : KeyPressed(key, d)
    \/ ReportIgnored
    \/ PollDone
    \/ PollError
    \/ \E io \in BOOLEAN : TimeoutCheck(io)
    \/ \E e \in Envs : Refresh(e)
    \/ RefreshSkip
    \/ \E io \in RedrawOutcomes : Redraw(io)
    \/ RedrawSkip
    \/ \E d \in PaceDelays : Pace(d)

Spec == Init /\ [][Next]_vars

----------------------------------------------------------------------------
(* Walks over the pages with Page::next and Page::prev *)

InitPage ==
    /\ app = new(Config, 0)
    /\ clock = 0
    /\ now = 0
    /\ pc = "top"
    /\ iter = 0
    /\ burst = 0
    /\ env = EnvHealthy
    /\ step = "new"
    /\ last_key = None
    /\ slow = 0
    /\ \E page \in Pages : nav = [start |-> page, cur |-> page, ops |-> <<>>]

NavNext ==
    /\ Len(nav.ops) < MaxOps
    /\ nav' = [nav EXCEPT !.cur = next(@), !.ops = Append(@, "next")]
    /\ UNCHANGED <<app, clock, now, pc, iter, burst, env, step, last_key, slow>>

NavPrev ==
    /\ Len(nav.ops) < MaxOps
    /\ nav' = [nav EXCEPT !.cur = prev(@), !.ops = Append(@, "prev")]
    /\ UNCHANGED <<app, clock, now, pc, iter, burst, env, step, last_key, slow>>

NextPage == NavNext \/ NavPrev

SpecPage == InitPage /\ [][NextPage]_vars

----------------------------------------------------------------------------
(* Refreshes over the statuses of the md devices *)

F_x == FileOk(<<"x", "\n">>)

SlotStatuses == {SlotAbsent, SlotWith(F_in_sync), SlotWith(F_faulty), SlotWith(FileErr)}

\* the statuses of one device; what is never read has one value
DevStatuses ==
    {[degraded |-> FileErr, raid_disks |-> FileErr, rd |-> <<SlotAbsent, SlotAbsent>>]}
    \cup {[degraded |-> g, raid_disks |-> n, rd |-> <<SlotAbsent, SlotAbsent>>] :
              g \in {F_0, F_1}, n \in {F_x, FileErr}}
    \cup {[degraded |-> g, raid_disks |-> F_1, rd |-> <<s0, SlotAbsent>>] :
              g \in {F_0, F_1}, s0 \in SlotStatuses}
    \cup {[degraded |-> g, raid_disks |-> F_2, rd |-> <<s0, s1>>] :
              g \in {F_0, F_1}, s0 \in SlotStatuses, s1 \in SlotStatuses}

RaidDevLists == {<<S_md0>>, <<S_md0, S_md1>>, <<S_md1, S_md0>>}

InitRaid ==
    /\ \E devs \in RaidDevLists :
           app = new([Config EXCEPT !.disk.md_raid = devs], 0)
    /\ clock = 0
    /\ now = 0
    /\ pc = "top"
    /\ iter = 0
    /\ burst = 0
    /\ env = EnvHealthy
    /\ step = "new"
    /\ last_key = None
    /\ slow = 0
    /\ nav = [start |-> "System", cur |-> "System", ops |-> <<>>]

\* the status of one device changes and refresh() runs
RaidRefresh(dev, status) ==
    /\ env' = [env EXCEPT !.sysfs[dev] = status]
    /\ app' = refresh(Fresh(app), env')
    /\ step' = "Refresh"
    /\ UNCHANGED <<clock, now, pc, iter, burst, last_key, slow, nav>>

NextRaid == \E dev \in {S_md0, S_md1}, status \in DevStatuses : RaidRefresh(dev, status)

SpecRaid == InitRaid /\ [][NextRaid]_vars

----------------------------------------------------------------------------
(* The control loop when the clock is read between the ticks of the timers *)

CadencePaceDelays == {LOOP_SLEEP + 3, REFRESH_INTERVAL + 5, SCREEN_TIMEOUT + 1}
CadenceKeyDelays == {0, 3}
CadenceKeys == {"Down", "Right"}

NextCadence ==
    \/ Top
    \/ \E key \in CadenceKeys, d \in CadenceKeyDelays : KeyPressed(key, d)
    \/ ReportIgnored
    \/ PollDone
    \/ PollError
    \/ \E io \in BOOLEAN : TimeoutCheck(io)
    \/ \E e \in {EnvHealthy, EnvExample} : Refresh(e)
    \/ RefreshSkip
    \/ \E io \in RedrawOutcomes : Redraw(io)
    \/ RedrawSkip
    \/ \E d \in CadencePaceDelays : Pace(d)

SpecCadence == Init /\ [][NextCadence]_vars

----------------------------------------------------------------------------
(* Writes to the display buffer and redraws over what they left *)

MaxWrites == 3

T_short == <<"a", "b", "c">>
T_long == <<"0", "1", "2", "3", "4", "5", "6", "7", "8", "9", "A", "B", "C", "D", "E",
            "F", "G", "H", "I", "J", "K", "L", "M", "N", "O">>

WriteRows == {0, NUM_ROWS - 1}
WriteCols == {0, 15, NUM_COLUMNS}
WriteTexts == {T_short, T_long}

\* set_text(row, col, text); nav keeps the arguments and the buffer before
BufferSetText(row, col, text) ==
    /\ iter < MaxWrites
    /\ iter' = iter + 1
    /\ app' = set_text(Fresh(app), row, col, text)
    /\ nav' = [row |-> row, col |-> col, text |-> text, before |-> app.buffer]
    /\ step' = "set_text"
    /\ UNCHANGED <<clock, now, pc, burst, env, last_key, slow>>

\* redraw() of the page `page` after a refresh that read e; nav keeps the
\* state redraw() starts from
BufferRedraw(page, e) ==
    /\ iter < MaxWrites
    /\ iter' = iter + 1
    /\ LET a == Fresh([refresh(app, e) EXCEPT !.current_page = page])
       IN  /\ app' = redraw(a, NUM_ROWS + 1).app
           /\ nav' = [before |-> a.buffer, page |-> page]
    /\ env' = e
    /\ step' = "Redraw"
    /\ UNCHANGED <<clock, now, pc, burst, last_key, slow>>

NextBuffer ==
    \/ \E row \in WriteRows, col \in WriteCols, text \in WriteTexts :
           BufferSetText(row, col, text)
    \/ \E page \in Pages, e \in Envs : BufferRedraw(page, e)

SpecBuffer == Init /\ [][NextBuffer]_vars

----------------------------------------------------------------------------
(* The control loop with a record of the key of the latest key-pressed report *)

\* KeyPressed(key, d), with the key, the page before and after it and the scroll
\* before it in nav
KeyLogged(key, d) ==
    /\ pc = "poll"
    /\ burst < MaxBurst
    /\ d > 0 => slow < MaxSlow
    /\ slow' = IF d > 0 THEN slow + 1 ELSE slow
    /\ burst' = burst + 1
    /\ clock' = clock + d
    /\ app' = key_pressed(Fresh(app), key, clock')
    /\ last_key' = Some(clock')
    /\ step' = IF is_awake(app) THEN "KeyPressedAwake" ELSE "KeyPressedAsleep"
    /\ nav' = [start |-> app.current_page, cur |-> app'.current_page, ops |-> <<key>>,
               scroll |-> app.scroll]
    /\ UNCHANGED <<now, pc, iter, env>>

KeysPaceDelays == {LOOP_SLEEP, SCREEN_TIMEOUT}
KeysEnvs == {EnvHealthy, EnvBroken}

NextKeys ==
    \/ Top
    \/ \E key \in Keys : KeyLogged(key, 0)
    \/ ReportIgnored
    \/ PollDone
    \/ PollError
    \/ \E io \in BOOLEAN : TimeoutCheck(io)
    \/ \E e \in KeysEnvs : Refresh(e)
    \/ RefreshSkip
    \/ \E io \in RedrawOutcomes : Redraw(io)
    \/ RedrawSkip
    \/ \E d \in KeysPaceDelays : Pace(d)

SpecKeys == Init /\ [][NextKeys]_vars

----------------------------------------------------------------------------
(* Properties of the control loop *)

KeySteps == {"KeyPressedAwake", "KeyPressedAsleep"}
MessageCount(a) == Len(a.md_errors) + Len(a.md_warnings)

\* C1: in every reachable state, whenever max_scroll is set, scroll <= max_scroll.
C1_ScrollWithinMax ==
    IsSome(app.max_scroll) => app.scroll <= Unwrap(app.max_scroll)

\* a refresh has shrunk the message list under a scrolled Messages page
C1_Witness ==
    /\ step = "Refresh"
    /\ app.current_page = "Messages"
    /\ app.scroll > 0
    /\ app.max_scroll = Some(app.scroll)
    /\ MessageCount(app) < app.scroll + NUM_ROWS - 1

\* C2: every step that changes the page leaves scroll = 0, max_scroll unset and
\* the redraw flag set; max_scroll becomes set only by a redraw of a page other
\* than System, and every such redraw sets it.
C2_PageChangeResets ==
    [][/\ app'.current_page # app.current_page
            => app'.scroll = 0 /\ app'.max_scroll = None /\ app'.should_redraw
       /\ app.max_scroll = None /\ app'.max_scroll # None
            => step' = "Redraw" /\ app'.current_page # "System"
       /\ step' = "Redraw" /\ app'.current_page # "System" => app'.max_scroll # None
      ]_vars

\* the messages have just been acknowledged: Messages -> System
C2_Witness ==
    /\ step = "KeyPressedAwake"
    /\ app.current_page = "System"
    /\ HasMessages(app)
    /\ app.should_redraw
    /\ app.scroll = 0
    /\ app.max_scroll = None

\* C3 as stated: the key that wakes the screen leaves page and scroll unchanged
\* and schedules a redraw.
C3_WakeLeavesPageAndScroll ==
    [][app.screen_timeout = None /\ step' \in KeySteps
            => /\ app'.current_page = app.current_page
               /\ app'.scroll = app.scroll
               /\ app'.should_redraw
      ]_vars

\* C3 amended: the key that wakes the screen schedules a redraw and is not
\* dispatched: with no message pending, page, scroll and max_scroll are unchanged;
\* with a message pending the page is Messages, scroll 0 and max_scroll unset,
\* whatever the key.
C3_WakeSuppression ==
    [][app.screen_timeout = None /\ step' \in KeySteps
            => /\ app'.should_redraw
               /\ IF HasMessages(app)
                  THEN /\ app'.current_page = "Messages"
                       /\ app'.scroll = 0
                       /\ app'.max_scroll = None
                  ELSE /\ app'.current_page = app.current_page
                       /\ app'.scroll = app.scroll
                       /\ app'.max_scroll = app.max_scroll
      ]_vars

\* the screen has just been woken on the Disk page, with no message pending
C3_Witness ==
    /\ step = "KeyPressedAsleep"
    /\ ~HasMessages(app)
    /\ app.current_page = "Disk"
    /\ app.should_redraw

\* C4: a wake from Asleep sets the page to Messages when errors or warnings is
\* non-empty, and leaves the page unchanged when both are empty.
C4_WakeToMessages ==
    [][app.screen_timeout = None /\ step' \in KeySteps
            => app'.current_page =
                   IF app.md_errors # <<>> \/ app.md_warnings # <<>>
                   THEN "Messages" ELSE app.current_page
      ]_vars

C4_Witness ==
    /\ step = "KeyPressedAsleep"
    /\ app.current_page = "Messages"
    /\ HasMessages(app)

IsBacklightOff(c) == c.op = "set_backlight" /\ c.args = <<0, 0>>
BacklightOffCalls(a) == Len(SelectSeq(a.lcd.calls, IsBacklightOff))

\* C5: when the screen is awake and the iteration's time is at least the timeout
\* past the latest key-pressed report, the timeout check puts the screen asleep;
\* a step that puts the screen asleep issues exactly one backlight-off call, and
\* a step taken while the screen is asleep issues none.
C5_SleepTimeout ==
    [][/\ ( /\ pc = "timeout"
            /\ is_awake(app)
            /\ IsSome(last_key)
            /\ now >= Unwrap(last_key) + SCREEN_TIMEOUT )
            => ~is_awake(app') /\ BacklightOffCalls(app') = 1
       /\ is_awake(app) /\ ~is_awake(app') => BacklightOffCalls(app') = 1
       /\ ~is_awake(app) => BacklightOffCalls(app') = 0
      ]_vars

\* the screen has gone to sleep after a key had been pressed
C5_Witness ==
    /\ step = "Sleep"
    /\ IsSome(last_key)
    /\ ~is_awake(app)
    /\ app.lcd.backlight = Some(<<0, 0>>)

\* C6: every key-pressed report sets the deadline to the time of its handling
\* plus the timeout; the screen goes to sleep no earlier than the timeout after
\* the latest key-pressed report, and not in an iteration that handled one.
C6_KeyExtendsDeadline ==
    [][/\ step' \in KeySteps => app'.screen_timeout = Some(clock' + SCREEN_TIMEOUT)
       /\ is_awake(app) /\ ~is_awake(app') /\ IsSome(last_key)
            => /\ now >= Unwrap(last_key) + SCREEN_TIMEOUT
               /\ Unwrap(last_key) < now
      ]_vars

\* the screen has gone to sleep exactly when the timeout after a key elapsed
C6_Witness ==
    /\ step = "Sleep"
    /\ IsSome(last_key)
    /\ now = Unwrap(last_key) + SCREEN_TIMEOUT

\* C8: a step that enters the Messages page from another page is the handling
\* of a key-pressed report while asleep with a non-empty errors or warnings list.
C8_MessagesOnlyByWake ==
    [][app.current_page # "Messages" /\ app'.current_page = "Messages"
            => /\ app.screen_timeout = None
               /\ step' = "KeyPressedAsleep"
               /\ HasMessages(app)
      ]_vars

\* the Messages page has just been entered
C8_Witness ==
    /\ step = "KeyPressedAsleep"
    /\ app.current_page = "Messages"
    /\ app.should_redraw
    /\ app.max_scroll = None
    /\ MessageCount(app) > 0

\* the colour of entry j (from 0) of errors, then warnings, then off
IndicatorColour(a, j) ==
    IF j < Len(a.md_errors) THEN LED_RED
    ELSE IF j < MessageCount(a) THEN LED_YELLOW
    ELSE LED_OFF

IndicatorOffset(a) ==
    IF a.screen_timeout # None /\ a.current_page = "Messages" THEN a.scroll ELSE 0

ExpectedLeds(a) ==
    IF MessageCount(a) = 0 THEN <<LED_GREEN, LED_OFF, LED_OFF, LED_OFF>>
    ELSE [i \in 1..4 |-> IndicatorColour(a, IndicatorOffset(a) + i - 1)]

\* C9: after a refresh, light 0 is idle/OK and lights 1-3 are off when there is
\* no message; otherwise light i has the colour of entry offset + i of errors,
\* warnings, off..., where offset is scroll when awake on Messages and else 0.
\* One error and one warning give [error, warning, off, off] at offset 0 and
\* [warning, off, off, off] at offset 1.
C9_IndicatorMapping ==
    step = "Refresh" =>
        /\ app.lcd.leds = ExpectedLeds(app)
        /\ Len(app.lcd.calls) = 8
        /\ \A i \in 1..4 :
               app.lcd.calls[4 + i] =
                   Call("set_led", <<i - 1, ExpectedLeds(app)[i][1],
                                     ExpectedLeds(app)[i][2]>>, TRUE)
        /\ Len(app.md_errors) = 1 /\ Len(app.md_warnings) = 1
               => app.lcd.leds =
                      IF IndicatorOffset(app) = 0
                      THEN <<LED_RED, LED_YELLOW, LED_OFF, LED_OFF>>
                      ELSE IF IndicatorOffset(app) = 1
                      THEN <<LED_YELLOW, LED_OFF, LED_OFF, LED_OFF>>
                      ELSE <<LED_OFF, LED_OFF, LED_OFF, LED_OFF>>

\* one error and one warning, refreshed while the Messages page is scrolled by 1
C9_Witness ==
    /\ step = "Refresh"
    /\ Len(app.md_errors) = 1
    /\ Len(app.md_warnings) = 1
    /\ is_awake(app)
    /\ app.current_page = "Messages"
    /\ app.scroll = 1
    /\ app.lcd.leds = <<LED_YELLOW, LED_OFF, LED_OFF, LED_OFF>>

----------------------------------------------------------------------------
(* Properties of Page::next and Page::prev *)

NormalPages == {"System", "Disk", "Network"}

\* C7: for P in {System, Disk, Network}, next(prev(P)) = P, prev(next(P)) = P and
\* three applications of next return to P, through System -> Disk -> Network ->
\* System; next and prev of Messages are Messages.
C7_PageCycle ==
    /\ nav.start \in NormalPages /\ nav.ops = <<"prev", "next">> => nav.cur = nav.start
    /\ nav.start \in NormalPages /\ nav.ops = <<"next", "prev">> => nav.cur = nav.start
    /\ nav.start \in NormalPages /\ nav.ops = <<"next", "next", "next">>
           => nav.cur = nav.start
    /\ nav.start = "System" /\ nav.ops = <<"next">> => nav.cur = "Disk"
    /\ nav.start = "System" /\ nav.ops = <<"next", "next">> => nav.cur = "Network"
    /\ nav.start = "Messages" /\ Len(nav.ops) = 1 => nav.cur = "Messages"

\* three times next from Network
C7_Witness ==
    /\ nav.start = "Network"
    /\ nav.ops = <<"next", "next", "next">>
    /\ nav.cur = "Network"

----------------------------------------------------------------------------
(* Properties of the RAID report *)

RECURSIVE Flatten(_)
Flatten(ss) == IF ss = <<>> THEN <<>> ELSE Head(ss) \o Flatten(Tail(ss))

SlotCount(d) == IF d.raid_disks = F_2 THEN 2 ELSE IF d.raid_disks = F_1 THEN 1 ELSE 0

\* every status file of the device that the check reads can be read and parsed
Readable(d) ==
    /\ d.degraded.ok
    /\ d.raid_disks \in {F_1, F_2}
    /\ \A i \in 1..SlotCount(d) : d.rd[i].exists => d.rd[i].state.ok

StateText(file) ==
    IF file = F_faulty THEN <<"F", "A", "U", "L", "T", "Y">> ELSE <<"?">>

ExpectedWarnings(dev, d) ==
    IF d.degraded # F_0
    THEN << <<"m", "d", ":", " ">> \o dev \o <<" ", "D", "E", "G", "R", "A", "D", "E", "D">> >>
    ELSE <<>>

ExpectedErrors(dev, d) ==
    Flatten([i \in 1..SlotCount(d) |->
        IF ~d.rd[i].exists
        THEN << dev \o <<":", " ", "r", "d", Digits[i], " ",
                         "N", "O", "T", "F", "O", "U", "N", "D">> >>
        ELSE IF d.rd[i].state # F_in_sync
        THEN << dev \o <<":", " ", "r", "d", Digits[i], " ">> \o StateText(d.rd[i].state) >>
        ELSE <<>>])

\* C10: after a refresh in which every device can be read, warnings and errors
\* hold exactly the entries of the current status, whatever the previous report:
\* device by device in configuration order, "md: <device> DEGRADED" in warnings
\* for a degraded indicator other than "0", and in errors, slot by slot,
\* "<device>: rd<slot> NOTFOUND" for an absent slot and "<device>: rd<slot>
\* <STATE>" for a slot whose state is not "in_sync".  md0 degraded with slot 0
\* in_sync and slot 1 absent gives ["md: md0 DEGRADED"] and ["md0: rd1 NOTFOUND"].
C10_RaidReport ==
    LET devs == app.config.disk.md_raid
    IN  step = "Refresh" /\ (\A k \in 1..Len(devs) : Readable(env.sysfs[devs[k]]))
        => /\ app.md_warnings =
                  Flatten([k \in 1..Len(devs) |->
                              ExpectedWarnings(devs[k], env.sysfs[devs[k]])])
           /\ app.md_errors =
                  Flatten([k \in 1..Len(devs) |->
                              ExpectedErrors(devs[k], env.sysfs[devs[k]])])
           /\ devs = <<S_md0>> /\ env.sysfs[S_md0] = DevExample
                  => /\ app.md_warnings =
                            << <<"m", "d", ":", " ", "m", "d", "0", " ",
                                 "D", "E", "G", "R", "A", "D", "E", "D">> >>
                     /\ app.md_errors =
                            << <<"m", "d", "0", ":", " ", "r", "d", "1", " ",
                                 "N", "O", "T", "F", "O", "U", "N", "D">> >>

\* md1 before md0 in the configuration, both degraded with failed members
C10_Witness ==
    /\ step = "Refresh"
    /\ app.config.disk.md_raid = <<S_md1, S_md0>>
    /\ env.sysfs[S_md0] = DevExample
    /\ env.sysfs[S_md1] = DevFaulty
    /\ Len(app.md_warnings) = 2
    /\ Len(app.md_errors) = 3

\* the first member slot of the device whose state cannot be read, else SlotCount + 1
FirstUnreadableSlot(d) ==
    LET bad == {i \in 1..SlotCount(d) : d.rd[i].exists /\ ~d.rd[i].state.ok}
    IN  IF bad = {} THEN SlotCount(d) + 1 ELSE CHOOSE i \in bad : \A j \in bad : i <= j

QueryError(dev) ==
    dev \o <<":", " ", "q", "u", "e", "r", "y", " ", "e", "r", "r", "o", "r">>

\* what one device contributes to warnings: its DEGRADED entry if the indicator
\* was read, then one query error entry if a read or the parse failed
DeviceWarnings(dev, d) ==
    (IF d.degraded.ok THEN ExpectedWarnings(dev, d) ELSE <<>>)
        \o (IF Readable(d) THEN <<>> ELSE << QueryError(dev) >>)

\* what one device contributes to errors: the entries of the slots checked
\* before the failure
DeviceErrors(dev, d) ==
    IF ~d.degraded.ok THEN <<>>
    ELSE Flatten([i \in 1..SlotCount(d) |->
                   IF i >= FirstUnreadableSlot(d) THEN <<>>
                   ELSE IF ~d.rd[i].exists
                   THEN << dev \o <<":", " ", "r", "d", Digits[i], " ",
                                    "N", "O", "T", "F", "O", "U", "N", "D">> >>
                   ELSE IF d.rd[i].state # F_in_sync
                   THEN << dev \o <<":", " ", "r", "d", Digits[i], " ">>
                               \o StateText(d.rd[i].state) >>
                   ELSE <<>>])

Occurrences(seq, x) == Cardinality({i \in 1..Len(seq) : seq[i] = x})

\* C11: a failure to read or parse a status file of a device ends the checks of
\* that device only: warnings gets exactly one "<device>: query error" entry for
\* it and errors none, the entries of every other configured device are those of
\* that device's own status, in configuration order, and the refresh goes on to
\* set the four lights.
C11_QueryFailure ==
    LET devs == app.config.disk.md_raid
    IN  step = "Refresh"
        => /\ app.md_warnings =
                  Flatten([k \in 1..Len(devs) |->
                              DeviceWarnings(devs[k], env.sysfs[devs[k]])])
           /\ app.md_errors =
                  Flatten([k \in 1..Len(devs) |->
                              DeviceErrors(devs[k], env.sysfs[devs[k]])])
           /\ \A k \in 1..Len(devs) :
                  /\ Occurrences(app.md_warnings, QueryError(devs[k])) =
                         (IF Readable(env.sysfs[devs[k]]) THEN 0 ELSE 1)
                  /\ Occurrences(app.md_errors, QueryError(devs[k])) = 0
           /\ Len(app.lcd.calls) = 8
           /\ app.lcd.leds = ExpectedLeds(app)

\* md1 fails at the state of slot 1 after a DEGRADED warning and an error for
\* slot 0; md0, configured after it, is still reported
C11_Witness ==
    /\ step = "Refresh"
    /\ app.config.disk.md_raid = <<S_md1, S_md0>>
    /\ env.sysfs[S_md1] = [degraded |-> F_1, raid_disks |-> F_2,
                           rd |-> <<SlotWith(F_faulty), SlotWith(FileErr)>>]
    /\ env.sysfs[S_md0] = DevExample
    /\ app.md_warnings =
           << <<"m", "d", ":", " ", "m", "d", "1", " ",
                "D", "E", "G", "R", "A", "D", "E", "D">>,
              <<"m", "d", "1", ":", " ", "q", "u", "e", "r", "y", " ",
                "e", "r", "r", "o", "r">>,
              <<"m", "d", ":", " ", "m", "d", "0", " ",
                "D", "E", "G", "R", "A", "D", "E", "D">> >>
    /\ app.md_errors =
           << <<"m", "d", "1", ":", " ", "r", "d", "0", " ", "F", "A", "U", "L", "T", "Y">>,
              <<"m", "d", "0", ":", " ", "r", "d", "1", " ",
                "N", "O", "T", "F", "O", "U", "N", "D">> >>

----------------------------------------------------------------------------
(* Properties of the page lines *)

\* a row of the display that holds `text` from column 0, padded with spaces
RowOf(text) == [c \in 1..NUM_COLUMNS |-> IF c <= Len(text) THEN text[c] ELSE " "]

MemoryLine(used, total) ==
    <<"M", "e", "m", ":", " ">> \o format_usize(used) \o <<"/">>
        \o format_usize(total) \o <<" ", "M">>

\* C12 as stated: 1,048,576 kB in total and 524,288 kB available render
\* "Mem: 512/1024 M" on the System page.
C12_MemoryExample ==
    /\ step = "Redraw"
    /\ app.current_page = "System"
    /\ app.system.total_memory = 1048576
    /\ app.system.available_memory = 524288
    => app.buffer[3] = RowOf(<<"M", "e", "m", ":", " ", "5", "1", "2", "/",
                              "1", "0", "2", "4", " ", "M">>)

\* C12 amended: the memory line of the System page is "Mem: <used>/<total> M",
\* where total and available are each converted by the truncating integer
\* arithmetic kB * 1024 / 1000 / 1024 and used is the difference of the converted
\* values; 1,048,576 kB in total and 524,288 kB available render
\* "Mem: 524/1048 M".
C12_MemoryLine ==
    step = "Redraw" /\ app.current_page = "System"
    => LET total == ((app.system.total_memory * 1024) \div 1000) \div 1024
           available == ((app.system.available_memory * 1024) \div 1000) \div 1024
       IN  /\ app.buffer[3] = RowOf(MemoryLine(total - available, total))
           /\ app.system.total_memory = 1048576 /\ app.system.available_memory = 524288
                  => app.buffer[3] = RowOf(<<"M", "e", "m", ":", " ", "5", "2", "4", "/",
                                            "1", "0", "4", "8", " ", "M">>)

\* the System page drawn with 1,048,576 kB in total and 524,288 kB available
C12_Witness ==
    /\ step = "Redraw"
    /\ app.current_page = "System"
    /\ app.system.total_memory = 1048576
    /\ app.system.available_memory = 524288
    /\ app.buffer[3] = RowOf(<<"M", "e", "m", ":", " ", "5", "2", "4", "/",
                               "1", "0", "4", "8", " ", "M">>)
    /\ \E i \in 1..Len(app.lcd.calls) :
           app.lcd.calls[i] = Call("set_text", <<2, 0, app.buffer[3]>>, TRUE)

----------------------------------------------------------------------------
(* Properties of the timers *)

\* C13: a deadline that is found due is advanced by whole periods to the first
\* value above the time sampled for its check (the time of line 71 for next_poll,
\* of line 86 for next_refresh): it is never set from the clock, so it stays at
\* its initial value plus a multiple of its period, and advancing one deadline
\* leaves the other alone.
C13_TimerCadence ==
    [][ /\ (app'.next_poll - new(Config, 0).next_poll) % POLL_INTERVAL = 0
        /\ (app'.next_refresh - new(Config, 0).next_refresh) % REFRESH_INTERVAL = 0
        /\ step' = "PollDone"
               => /\ now >= app.next_poll
                  /\ app'.next_poll > now
                  /\ app'.next_poll - POLL_INTERVAL <= now
                  /\ app'.next_refresh = app.next_refresh
        /\ step' = "Refresh"
               => /\ clock >= app.next_refresh
                  /\ app'.next_refresh > clock
                  /\ app'.next_refresh - REFRESH_INTERVAL <= clock
                  /\ app'.next_poll = app.next_poll
        /\ step' \notin {"PollDone", "Refresh"}
               => /\ app'.next_poll = app.next_poll
                  /\ app'.next_refresh = app.next_refresh
      ]_vars

\* the loop fell behind by more than a refresh period, the clock is between two
\* ticks, and both deadlines have caught up
C13_Witness ==
    /\ step = "Refresh"
    /\ clock % POLL_INTERVAL # 0
    /\ clock > 2 * REFRESH_INTERVAL
    /\ app.next_poll > now
    /\ app.next_poll % POLL_INTERVAL = 0
    /\ app.next_refresh > clock
    /\ app.next_refresh % REFRESH_INTERVAL = 0

----------------------------------------------------------------------------
(* Properties of the order of the steps of one iteration *)

PollSteps == KeySteps \cup {"ReportIgnored"}

MessageRow(a, r) ==
    LET msgs == a.md_errors \o a.md_warnings
    IN  IF r <= NUM_ROWS - 1 /\ a.scroll + r <= Len(msgs)
        THEN RowOf(msgs[a.scroll + r])
        ELSE RowOf(<<>>)

\* C14: in one iteration the reports are handled until none is left, then comes
\* the sleep check, then the refresh decision, then the redraw decision.  A
\* queued redraw is taken off only by a redraw, which shows the page, scroll and
\* RAID report as the poll and refresh of the iteration left them, and no redraw
\* is queued any more when the iteration ends.
C14_TickOrder ==
    [][ /\ step' \in PollSteps \cup {"PollDone", "PollError"}
               => step \in PollSteps \cup {"Top"}
        /\ step' \in {"Sleep", "NoSleep"} => step = "PollDone"
        /\ step' \in {"Refresh", "RefreshSkip"} => step \in {"Sleep", "NoSleep"}
        /\ step' \in {"Redraw", "RedrawSkip"} => step \in {"Refresh", "RefreshSkip"}
        /\ step' = "Pace" => step \in {"Redraw", "RedrawSkip"} /\ ~app.should_redraw
        /\ step' = "Top" => step \in {"new", "Pace"} /\ ~app.should_redraw
        /\ app.should_redraw /\ ~app'.should_redraw => step' = "Redraw"
        /\ app.should_redraw /\ step \in {"Refresh", "RefreshSkip"} => step' = "Redraw"
        /\ step' = "Redraw"
               => /\ iter' = iter
                  /\ app'.current_page = app.current_page
                  /\ app'.md_errors = app.md_errors
                  /\ app'.md_warnings = app.md_warnings
                  /\ app'.system = app.system
                  /\ app'.scroll <= app.scroll
                  /\ app.current_page = "Messages"
                         => \A r \in 1..NUM_ROWS : app'.buffer[r] = MessageRow(app', r)
      ]_vars

\* the first iteration: a key changed the page to Disk, the refresh read five
\* disks, and the redraw shows the second row of the Disk page
C14_Witness ==
    /\ iter = 1
    /\ step = "Redraw"
    /\ pc = "pace"
    /\ ~app.should_redraw
    /\ last_key # None
    /\ app.current_page = "Disk"
    /\ DOMAIN app.system.disks = {S_root, S_boot, S_home, S_srv, S_var}
    /\ app.max_scroll = Some(2)
    /\ app.buffer[2] = RowOf(<<"/", " ", "5", "0", "/", "1", "0", "0", " ", "G">>)

----------------------------------------------------------------------------
(* Properties of the backlight *)

IsBacklightOn(c) == c.op = "set_backlight" /\ c.args # <<0, 0>>

\* C15: the handling of a key, and so the wake, makes no device call.  A
\* backlight-on call is made only by a redraw, as its last call, after the four
\* rows of the buffer composed by that redraw went to the display; so after a
\* wake from Asleep the backlight of the device stays as it was until then.
C15_DeferredBacklight ==
    [][ /\ step' \in KeySteps
               => /\ app'.lcd.calls = <<>>
                  /\ app'.lcd.backlight = app.lcd.backlight
        /\ \A i \in 1..Len(app'.lcd.calls) :
               IsBacklightOn(app'.lcd.calls[i])
                   => /\ step' = "Redraw"
                      /\ i = NUM_ROWS + 1
                      /\ i = Len(app'.lcd.calls)
                      /\ \A r \in 1..NUM_ROWS :
                             app'.lcd.calls[r] =
                                 Call("set_text", <<r - 1, 0, app'.buffer[r]>>, TRUE)
        /\ app'.lcd.backlight # app.lcd.backlight
               => \/ step' = "Sleep" /\ app'.lcd.backlight = Some(<<0, 0>>)
                  \/ /\ step' = "Redraw"
                     /\ Len(app'.lcd.calls) = NUM_ROWS + 1
                     /\ app'.lcd.calls[NUM_ROWS + 1].ok
      ]_vars

\* the second iteration: a key woke the screen into the Messages page, and the
\* redraw turned the backlight on after its four rows
C15_Witness ==
    /\ iter = 2
    /\ step = "Redraw"
    /\ app.current_page = "Messages"
    /\ last_key # None
    /\ Len(app.lcd.calls) = NUM_ROWS + 1
    /\ app.lcd.calls[NUM_ROWS + 1] = Call("set_backlight", <<100, 50>>, TRUE)
    /\ app.lcd.calls[1] = Call("set_text", <<0, 0, app.buffer[1]>>, TRUE)
    /\ app.lcd.backlight = Some(<<100, 50>>)

----------------------------------------------------------------------------
(* Properties of wake() *)

\* C16 as stated: every call of wake() queues a redraw, and it returns true
\* exactly when the screen was asleep.
C16_WakeAlwaysSchedules ==
    [][ step' \in KeySteps
            => LET w == wake(Fresh(app), clock')
               IN  /\ w.app.should_redraw
                   /\ w.was_asleep <=> (app.screen_timeout = None)
      ]_vars

\* C16 amended: wake() queues a redraw when the screen was asleep and leaves the
\* dirty flag as it was when the screen was already awake; it returns true
\* exactly when the call took the screen from Asleep to Awake, so that the key is
\* dispatched exactly when it returns false.
C16_WakeSchedulesFromAsleep ==
    [][ step' \in KeySteps
            => LET w == wake(Fresh(app), clock')
               IN  /\ w.app.screen_timeout = Some(clock' + SCREEN_TIMEOUT)
                   /\ w.was_asleep <=> (app.screen_timeout = None)
                   /\ w.app.should_redraw <=> (app.should_redraw \/ w.was_asleep)
                   /\ w.was_asleep => app' = w.app
                   /\ ~w.was_asleep => \E key \in Keys : app' = dispatch(w.app, key)
                   /\ ~w.was_asleep /\ ~app.should_redraw /\ app'.should_redraw
                          => \/ app'.scroll # app.scroll
                             \/ app'.current_page # app.current_page
                             \/ app'.max_scroll = None
      ]_vars

\* a key handled while the screen was awake and no redraw was queued: none is
\* queued afterwards
C16_Witness ==
    /\ step = "KeyPressedAwake"
    /\ last_key = Some(clock)
    /\ app.screen_timeout = Some(clock + SCREEN_TIMEOUT)
    /\ ~app.should_redraw

----------------------------------------------------------------------------
(* Properties of the lights against the display *)

\* C17: at the end of an iteration in which the screen is awake and shows the
\* Messages page, light i has the colour of the message at position scroll + i
\* of errors then warnings (off beyond the last), scroll being the offset of the
\* last redraw.
C17_IndicatorLockstep ==
    /\ pc = "pace"
    /\ is_awake(app)
    /\ app.current_page = "Messages"
    /\ MessageCount(app) > 0
    => \A i \in 1..4 : app.lcd.leds[i] = IndicatorColour(app, app.scroll + i - 1)

----------------------------------------------------------------------------
(* Properties of the keys on the Messages page *)

LeftRightOnMessages ==
    /\ step' = "KeyPressedAwake"
    /\ nav'.ops \in {<<"Left">>, <<"Right">>}
    /\ app.current_page = "Messages"

\* C18 as stated: Left or Right on the Messages page of an awake screen leaves
\* the page, the scroll offset and the scroll bound as they were.
C18_LeftRightNoOp ==
    [][ LeftRightOnMessages
            => /\ app'.current_page = "Messages"
               /\ app'.scroll = app.scroll
               /\ app'.max_scroll = app.max_scroll
      ]_vars

\* C18 amended: Left or Right on the Messages page of an awake screen leaves
\* the page at Messages, and like every page change it resets scroll to 0,
\* unsets the scroll bound until the next redraw and queues a redraw; the sleep
\* deadline is extended and nothing else changes.
C18_LeftRightRestartsMessages ==
    [][ LeftRightOnMessages
            => /\ app'.current_page = "Messages"
               /\ app'.scroll = 0
               /\ app'.max_scroll = None
               /\ app'.should_redraw
               /\ app'.screen_timeout = Some(clock' + SCREEN_TIMEOUT)
               /\ app' = [app EXCEPT !.scroll = 0, !.max_scroll = None,
                                     !.should_redraw = TRUE,
                                     !.screen_timeout = Some(clock' + SCREEN_TIMEOUT),
                                     !.lcd.calls = <<>>]
      ]_vars

\* Left on the Messages page scrolled by 1: scroll is back at 0
C18_Witness ==
    /\ step = "KeyPressedAwake"
    /\ nav = [start |-> "Messages", cur |-> "Messages", ops |-> <<"Left">>, scroll |-> 1]
    /\ app.current_page = "Messages"
    /\ MessageCount(app) = 4
    /\ app.scroll = 0
    /\ app.max_scroll = None
    /\ app.should_redraw

----------------------------------------------------------------------------
(* Properties of the display buffer *)

IsRow(row) == DOMAIN row = 1..NUM_COLUMNS

\* the text of a row without its trailing spaces
RECURSIVE Unpadded(_)
Unpadded(row) ==
    IF row = <<>> THEN <<>>
    ELSE IF row[Len(row)] = " " THEN Unpadded(SubSeq(row, 1, Len(row) - 1))
    ELSE row

\* the rows a redraw of each page writes, by the longest text it can hold
IsPageText(a, r) ==
    LET text == Unpadded(a.buffer[r])
        msgs == a.md_errors \o a.md_warnings
    IN  \/ text = <<>>
        \/ /\ a.current_page = "Messages"
           /\ r <= Len(msgs)
           /\ text = Unpadded(RowOf(msgs[r]))
        \/ /\ a.current_page # "Messages"
           /\ r = 1
           /\ a.system.host_name # None
           /\ text = a.system.host_name[1]
        \/ /\ a.current_page = "System"
           /\ \/ /\ r = 2
                 /\ SubSeq(text, 1, 5) = <<"C", "P", "U", ":", " ">>
                 /\ IsDigit(text[Len(text)])
              \/ /\ r = 3
                 /\ SubSeq(text, 1, 5) = <<"M", "e", "m", ":", " ">>
                 /\ text[Len(text)] = "M"
        \/ /\ a.current_page = "Disk"
           /\ r >= 2
           /\ text[1] = "/"
           /\ text[Len(text)] = "G"
        \/ /\ a.current_page = "Network"
           /\ r >= 2
           /\ text[1] \in {"e", "l", "w"}
           /\ text[Len(text)] = "M"

\* C19: set_text(row, col, text) writes the leading characters of text that fit
\* between col and the end of the row and nothing else: the cells before col,
\* the cells after the text and the other rows keep their characters, and every
\* row keeps its NUM_COLUMNS cells.  A redraw clears the buffer first: its rows
\* hold a line of the page drawn or spaces, whatever the buffer held before,
\* and these rows are what it sends to the display.
C19_BufferWrites ==
    /\ DOMAIN app.buffer = 1..NUM_ROWS
    /\ \A r \in 1..NUM_ROWS : IsRow(app.buffer[r])
    /\ step = "set_text"
           => \A r \in 1..NUM_ROWS, c \in 1..NUM_COLUMNS :
                  app.buffer[r][c] =
                      IF r = nav.row + 1 /\ c > nav.col /\ c <= nav.col + Len(nav.text)
                      THEN nav.text[c - nav.col]
                      ELSE nav.before[r][c]
    /\ step = "Redraw"
           => /\ \A r \in 1..NUM_ROWS :
                     /\ IsPageText(app, r)
                     /\ app.lcd.calls[r] = Call("set_text", <<r - 1, 0, app.buffer[r]>>, TRUE)

\* "abc" and then a text of 25 characters at column 15 were written to the last
\* row, of which five fitted; the System page drawn next leaves none of them
C19_Witness ==
    /\ step = "Redraw"
    /\ nav.page = "System"
    /\ nav.before[NUM_ROWS] =
           <<"a", "b", "c", " ", " ", " ", " ", " ", " ", " ", " ", " ", " ", " ", " ",
             "0", "1", "2", "3", "4">>
    /\ app.buffer[NUM_ROWS] = RowOf(<<>>)
    /\ app.buffer[1] = RowOf(S_host)

----------------------------------------------------------------------------
(* Properties of the sleeping screen *)

\* C20: the first iteration finds the initial deadline elapsed.  A redraw, and
\* with it every backlight-on call, happens only while the sleep deadline is
\* set: while the screen is asleep no redraw is queued, refreshes set the lights
\* and leave the display alone, and the backlight stays off until a key-pressed
\* report wakes the screen.
C20_NoRedrawAsleep ==
    [][ /\ step' = "Redraw" => is_awake(app) /\ is_awake(app')
        /\ \A i \in 1..Len(app'.lcd.calls) :
               IsBacklightOn(app'.lcd.calls[i]) \/ app'.lcd.calls[i].op = "set_text"
                   => is_awake(app) /\ is_awake(app')
        /\ ~is_awake(app') => ~app'.should_redraw
        /\ ~is_awake(app') /\ pc' # "exit" => app'.lcd.backlight = Some(<<0, 0>>)
        /\ ~is_awake(app) /\ is_awake(app') => step' = "KeyPressedAsleep"
        /\ ~is_awake(app) /\ step' = "Refresh" => app'.buffer = app.buffer
        /\ iter = 0 /\ step' = "Top" => is_awake(app) /\ now' >= Unwrap(app.screen_timeout)
      ]_vars

\* a refresh of the second iteration with the screen asleep since the first:
\* the lights show the report, the backlight is off and no redraw is queued
C20_Witness ==
    /\ iter = 2
    /\ step = "Refresh"
    /\ ~is_awake(app)
    /\ last_key = None
    /\ app.lcd.backlight = Some(<<0, 0>>)
    /\ app.lcd.leds = <<LED_RED, LED_YELLOW, LED_OFF, LED_OFF>>
    /\ ~app.should_redraw
    /\ pc = "redraw"

====
